---- MODULE Spec2Model ----
(***************************************************************************)
(* A model of src/libs/SearchQueryUtils.ts: the conversions between the    *)
(* parser's AST, the flattened filters, the query string, the advanced-    *)
(* filters form and the user-readable title, and the query hash.           *)
(*                                                                         *)
(* A JavaScript string is a sequence of one-character strings, so that     *)
(* concatenation, the sanitizer's character test, the comparison of the    *)
(* sort and the hash act on characters as the code does.  An absent        *)
(* (undefined) string field is the empty sequence: the code tests such     *)
(* fields for truthiness only.                                             *)
(***************************************************************************)
EXTENDS Integers, Sequences, FiniteSets, TLC

\* ------------------------------------------------------------ bounds

\* The parser's ASTs of the model have at most this many comparison leaves.
MaxLeaves == 2

\* ------------------------------------------------------------ characters

\* The printable ASCII characters in code order, from the space (code 32) on.
\* The backtick (code 96) is written by name: no string of the model holds it.
Alphabet ==
  << " ", "!", "\"", "#", "$", "%", "&", "'", "(", ")", "*", "+", ",", "-", ".", "/",
     "0", "1", "2", "3", "4", "5", "6", "7", "8", "9", ":", ";", "<", "=", ">", "?",
     "@", "A", "B", "C", "D", "E", "F", "G", "H", "I", "J", "K", "L", "M", "N", "O",
     "P", "Q", "R", "S", "T", "U", "V", "W", "X", "Y", "Z", "[", "\\", "]", "^", "_",
     "backtick", "a", "b", "c", "d", "e", "f", "g", "h", "i", "j", "k", "l", "m", "n", "o",
     "p", "q", "r", "s", "t", "u", "v", "w", "x", "y", "z", "{", "|", "}", "~" >>

\* String.prototype.charCodeAt of a one-character string.
CharCode(c) == 31 + (CHOOSE i \in 1..Len(Alphabet) : Alphabet[i] = c)

\* The characters the sanitizer's regular expression lets through unquoted.
SafeChars ==
  { Alphabet[i] : i \in 17..26 } \cup { Alphabet[i] : i \in 34..59 }
    \cup { Alphabet[i] : i \in 66..91 }
    \cup { "_", "@", ".", "/", "#", "&", "+", "-", "\\", "'", ";", ",", "\"" }

\* JavaScript's a > b on strings: the comparison of the code units, left to right.
RECURSIVE StrGreater(_, _)
StrGreater(a, b) ==
  IF a = <<>> THEN FALSE
  ELSE IF b = <<>> THEN TRUE
  ELSE IF Head(a) = Head(b) THEN StrGreater(Tail(a), Tail(b))
  ELSE CharCode(Head(a)) > CharCode(Head(b))

\* Array.prototype.join.
RECURSIVE Join(_, _)
Join(parts, sep) ==
  IF parts = <<>> THEN <<>>
  ELSE IF Len(parts) = 1 THEN parts[1]
  ELSE parts[1] \o sep \o Join(Tail(parts), sep)

\* ------------------------------------------------------------ CONST.SEARCH

S_date == <<"d", "a", "t", "e">>
S_amount == <<"a", "m", "o", "u", "n", "t">>
S_expenseType == <<"e", "x", "p", "e", "n", "s", "e", "T", "y", "p", "e">>
S_currency == <<"c", "u", "r", "r", "e", "n", "c", "y">>
S_merchant == <<"m", "e", "r", "c", "h", "a", "n", "t">>
S_description == <<"d", "e", "s", "c", "r", "i", "p", "t", "i", "o", "n">>
S_from == <<"f", "r", "o", "m">>
S_to == <<"t", "o">>
S_category == <<"c", "a", "t", "e", "g", "o", "r", "y">>
S_tag == <<"t", "a", "g">>
S_taxRate == <<"t", "a", "x", "R", "a", "t", "e">>
S_cardID == <<"c", "a", "r", "d", "I", "D">>
S_reportID == <<"r", "e", "p", "o", "r", "t", "I", "D">>
S_keyword == <<"k", "e", "y", "w", "o", "r", "d">>
S_in == <<"i", "n">>

S_policyID == <<"p", "o", "l", "i", "c", "y", "I", "D">>
S_type == <<"t", "y", "p", "e">>
S_status == <<"s", "t", "a", "t", "u", "s">>
S_sortBy == <<"s", "o", "r", "t", "B", "y">>
S_sortOrder == <<"s", "o", "r", "t", "O", "r", "d", "e", "r">>

S_expense == <<"e", "x", "p", "e", "n", "s", "e">>
S_invoice == <<"i", "n", "v", "o", "i", "c", "e">>
S_trip == <<"t", "r", "i", "p">>
S_chat == <<"c", "h", "a", "t">>
S_all == <<"a", "l", "l">>
S_drafts == <<"d", "r", "a", "f", "t", "s">>
S_outstanding == <<"o", "u", "t", "s", "t", "a", "n", "d", "i", "n", "g">>
S_approved == <<"a", "p", "p", "r", "o", "v", "e", "d">>
S_paid == <<"p", "a", "i", "d">>
S_current == <<"c", "u", "r", "r", "e", "n", "t">>
S_past == <<"p", "a", "s", "t">>
S_unread == <<"u", "n", "r", "e", "a", "d">>
S_sent == <<"s", "e", "n", "t">>
S_desc == <<"d", "e", "s", "c">>

\* CONST.SEARCH.SYNTAX_FILTER_KEYS, in the order of its declaration.
SYNTAX_FILTER_KEYS ==
  << S_date, S_amount, S_expenseType, S_currency, S_merchant, S_description,
     S_from, S_to, S_category, S_tag, S_taxRate, S_cardID, S_reportID,
     S_keyword, S_in >>

\* CONST.SEARCH.SYNTAX_ROOT_KEYS, in the order of its declaration.
SYNTAX_ROOT_KEYS == << S_policyID, S_type, S_status, S_sortBy, S_sortOrder >>

\* CONST.SEARCH.SYNTAX_OPERATORS.
SYNTAX_OPERATORS == { "eq", "neq", "gt", "gte", "lt", "lte", "and", "or" }

\* The character(s) of each operator.
operatorToCharMap ==
  [ o \in SYNTAX_OPERATORS |->
      CASE o = "eq" -> <<":">>
        [] o = "lt" -> <<"<">>
        [] o = "lte" -> <<"<", "=">>
        [] o = "gt" -> <<">">>
        [] o = "gte" -> <<">", "=">>
        [] o = "neq" -> <<"!", "=">>
        [] o = "and" -> <<",">>
        [] o = "or" -> <<" ">> ]

\* ------------------------------------------------------------ sanitizer

\* The lastIndex of the regular expression when it is tested: the literal is
\* evaluated by every call, so the test starts at the beginning of the string.
RegexpLastIndex == 0

\* regexp.test(str) with the g flag: whether a character outside the safe set
\* is at or after lastIndex.
RegexpTest_first(str, lastIndex) ==
  lastIndex < Len(str) /\ str[lastIndex + 1] \notin SafeChars

RegexpTest(str, lastIndex) ==
  \E i \in (lastIndex + 1)..Len(str) : str[i] \notin SafeChars

\* The value, wrapped in double quotes when it holds a character outside the
\* safe set.
sanitizeSearchValue(str) ==
  IF RegexpTest(str, RegexpLastIndex)
  THEN <<"\"">> \o str \o <<"\"">>
  ELSE str

\* ------------------------------------------------------------ serializer

\* Whether entry index is appended to the clause of the entry before it.
SameEqOrNeq_any(queryFilters, index) ==
  /\ index # 1
  /\ queryFilters[index].operator = queryFilters[index - 1].operator

SameEqOrNeq(queryFilters, index) ==
  /\ index # 1
  /\ \/ queryFilters[index].operator = "eq" /\ queryFilters[index - 1].operator = "eq"
     \/ queryFilters[index].operator = "neq" /\ queryFilters[index - 1].operator = "neq"

\* One step of the forEach of buildFilterValuesString: what entry index adds.
FilterValuePiece(filterName, queryFilters, index) ==
  LET delimiter == IF filterName = S_keyword THEN <<" ">> ELSE <<",">>
      queryFilter == queryFilters[index]
  IN  IF SameEqOrNeq(queryFilters, index)
      THEN delimiter \o sanitizeSearchValue(queryFilter.value)
      ELSE IF filterName = S_keyword
      THEN delimiter \o sanitizeSearchValue(queryFilter.value)
      ELSE <<" ">> \o filterName \o operatorToCharMap[queryFilter.operator]
             \o sanitizeSearchValue(queryFilter.value)

RECURSIVE FilterValuesFrom(_, _, _)
FilterValuesFrom(filterName, queryFilters, index) ==
  IF index > Len(queryFilters) THEN <<>>
  ELSE FilterValuePiece(filterName, queryFilters, index)
         \o FilterValuesFrom(filterName, queryFilters, index + 1)

\* The string of one key's filters.
buildFilterValuesString(filterName, queryFilters) ==
  FilterValuesFrom(filterName, queryFilters, 1)

\* ------------------------------------------------------------ AST

(***************************************************************************)
(* An ASTNode is [operator, left, right].  operator is "" for a node       *)
(* without operator.  left is [t |-> "key", k |-> string] or               *)
(* [t |-> "node", n |-> ASTNode]; right is [t |-> "str", s |-> string],    *)
(* [t |-> "list", l |-> sequence of strings] or [t |-> "node", n |-> ...]; *)
(* [t |-> "none"] stands for an absent child and for absent filters.       *)
(***************************************************************************)
Absent == [t |-> "none"]
KeyOf(k) == [t |-> "key", k |-> k]
StrOf(s) == [t |-> "str", s |-> s]
ListOf(l) == [t |-> "list", l |-> l]
NodeOf(n) == [t |-> "node", n |-> n]

\* typeof x === 'object' && x && !Array.isArray(x)
IsNode(x) == x.t = "node"

\* ------------------------------------------------------------ flattener

(***************************************************************************)
(* QueryFilters is a JavaScript object: a sequence of [key, filters] in    *)
(* the insertion order of the keys, each key once.                         *)
(***************************************************************************)
HasKey(filters, key) == \E i \in 1..Len(filters) : filters[i].key = key

FiltersOf(filters, key) ==
  IF HasKey(filters, key)
  THEN filters[CHOOSE i \in 1..Len(filters) : filters[i].key = key].filters
  ELSE <<>>

\* Object.keys
KeysOf(filters) == [i \in 1..Len(filters) |-> filters[i].key]

\* filters[nodeKey] = [] when the key is new, then the pushes onto its array.
PushAll(filters, key, entries) ==
  IF HasKey(filters, key)
  THEN [i \in 1..Len(filters) |->
          IF filters[i].key = key
          THEN [key |-> key, filters |-> filters[i].filters \o entries]
          ELSE filters[i]]
  ELSE Append(filters, [key |-> key, filters |-> entries])

\* filterKeys.includes(nodeKey), nodeKey being node.left
IsFilterKey(left) ==
  /\ left.t = "key"
  /\ \E i \in 1..Len(SYNTAX_FILTER_KEYS) : SYNTAX_FILTER_KEYS[i] = left.k

\* The entries a node with a recognized key pushes: one for a scalar right-hand
\* side, one per element for a list.
OwnEntries_first(node) ==
  IF node.right.t = "list"
  THEN IF node.right.l = <<>> THEN <<>>
       ELSE <<[operator |-> node.operator, value |-> node.right.l[1]]>>
  ELSE <<[operator |-> node.operator, value |-> node.right.s]>>

OwnEntries(node) ==
  IF node.right.t = "list"
  THEN [i \in 1..Len(node.right.l) |->
          [operator |-> node.operator, value |-> node.right.l[i]]]
  ELSE <<[operator |-> node.operator, value |-> node.right.s]>>

\* traverse of getFilters, the map filters threaded through.  (A node with a key
\* on the left and a node on the right is not an AST of the grammar.)
RECURSIVE traverse(_, _)
traverse(node, filters) ==
  IF node.operator = "" THEN filters
  ELSE LET afterLeft == IF IsNode(node.left) THEN traverse(node.left.n, filters)
                        ELSE filters
           afterRight == IF IsNode(node.right) THEN traverse(node.right.n, afterLeft)
                         ELSE afterLeft
       IN  IF ~IsFilterKey(node.left) THEN afterRight
           ELSE PushAll(afterRight, node.left.k, OwnEntries(node))

\* The AST of queryJSON flattened.
getFilters(queryJSON) ==
  IF queryJSON.filters.t = "node" THEN traverse(queryJSON.filters.n, <<>>) ELSE <<>>

\* ------------------------------------------------------------ hasher

\* Array.prototype.sort() of strings without a comparator: ascending code units.
RECURSIVE SortStrings(_)
SortStrings(strs) ==
  IF strs = <<>> THEN <<>>
  ELSE LET m == CHOOSE i \in 1..Len(strs) :
                  \A j \in 1..Len(strs) : ~StrGreater(strs[i], strs[j])
       IN  <<strs[m]>> \o SortStrings([i \in 1..(Len(strs) - 1) |->
                                          IF i < m THEN strs[i] ELSE strs[i + 1]])

\* The comparator of the value sort: 1 when the first value is greater, -1
\* otherwise (also for equal values).
CompareValues(queryFilter1, queryFilter2) ==
  IF StrGreater(queryFilter1.value, queryFilter2.value) THEN 1 ELSE -1

(***************************************************************************)
(* Array.prototype.sort with CompareValues.  The comparator answers -1 for *)
(* two equal values in both directions, so it is not a consistent          *)
(* comparator and the order of equal values is implementation-defined: an  *)
(* outcome is any arrangement of the entries in which no entry precedes    *)
(* one the comparator puts before it.                                      *)
(***************************************************************************)
SortOutcomes(queryFilters) ==
  LET n == Len(queryFilters)
      arranged(p) == [i \in 1..n |-> queryFilters[p[i]]]
  IN  { arranged(p) : p \in
          { q \in Permutations(1..n) :
              \A i, j \in 1..n :
                 i < j => CompareValues(queryFilters[q[i]], queryFilters[q[j]]) # 1 } }

\* The flattened filters after the in-place sorts of getQueryHash: one outcome
\* per key, the keys in place.
RECURSIVE SortedInPlace(_)
SortedInPlace(flatFilters) ==
  IF flatFilters = <<>> THEN { <<>> }
  ELSE { <<[key |-> Head(flatFilters).key, filters |-> sorted]>> \o rest :
           sorted \in SortOutcomes(Head(flatFilters).filters),
           rest \in SortedInPlace(Tail(flatFilters)) }

\* The root fields of the string that is hashed.
OrderedRoot(query) ==
  (IF query.policyID # <<>> THEN S_policyID \o <<":">> \o query.policyID \o <<" ">>
   ELSE <<>>)
    \o S_type \o <<":">> \o query.type
    \o <<" ">> \o S_status \o <<":">> \o query.status
    \o <<" ">> \o S_sortBy \o <<":">> \o query.sortBy
    \o <<" ">> \o S_sortOrder \o <<":">> \o query.sortOrder

RECURSIVE OrderedFilters(_, _)
OrderedFilters(keys, sortedFilters) ==
  IF keys = <<>> THEN <<>>
  ELSE <<" ">> \o buildFilterValuesString(Head(keys), FiltersOf(sortedFilters, Head(keys)))
         \o OrderedFilters(Tail(keys), sortedFilters)

\* orderedQuery of getQueryHash, given the filters as the sorts left them.
OrderedQuery(query, sortedFilters) ==
  OrderedRoot(query) \o OrderedFilters(SortStrings(KeysOf(sortedFilters)), sortedFilters)

(***************************************************************************)
(* UserUtils.hashText(text, 2 ** 32): a polynomial hash of the code points *)
(* modulo 2^32, h' = (h * 65599 + code) % 2^32.  The 32-bit value is kept  *)
(* as two 16-bit halves so that no intermediate value leaves the integers  *)
(* of the checker.                                                         *)
(***************************************************************************)
HashStep(h, code) ==
  LET low == h.lo * 63 + code
  IN  [lo |-> low % 65536,
       hi |-> (h.lo + h.hi * 63 + (low \div 65536)) % 65536]

\* The hash h carried over the characters first..last of text, the first half
\* before the second.  (The test of h makes the checker compute h before it goes
\* on; a hash is never negative.)
RECURSIVE HashFrom(_, _, _, _)
HashFrom(h, text, first, last) ==
  IF h.lo < 0 \/ first > last THEN h
  ELSE IF first = last THEN HashStep(h, CharCode(text[first]))
  ELSE LET middle == (first + last) \div 2
       IN  HashFrom(HashFrom(h, text, first, middle), text, middle + 1, last)

hashText(text) == HashFrom([hi |-> 0, lo |-> 0], text, 1, Len(text))

\* getQueryHash: every outcome [flatFilters, orderedQuery, hash] of one call, the
\* flatFilters being those of the query after the call.
getQueryHash(query) ==
  { [flatFilters |-> sortedFilters,
     orderedQuery |-> OrderedQuery(query, sortedFilters),
     hash |-> hashText(OrderedQuery(query, sortedFilters))] :
       sortedFilters \in SortedInPlace(query.flatFilters) }

\* ------------------------------------------------------------ facade

Undefined == [t |-> "undefined"]

\* What searchParser.parse('') returns: the default root fields and no filters.
DefaultParse ==
  [type |-> S_expense, status |-> S_all, sortBy |-> S_date, sortOrder |-> S_desc,
   policyID |-> <<>>, filters |-> Absent]

\* buildSearchQueryJSON after a successful parse: every object it may return
\* (json) with the text that was hashed, the flatFilters as the hash computation
\* left them.
BuiltQueries(query, result) ==
  LET withFilters == [t |-> "json", type |-> result.type, status |-> result.status,
                      sortBy |-> result.sortBy, sortOrder |-> result.sortOrder,
                      policyID |-> result.policyID, filters |-> result.filters,
                      inputQuery |-> query, flatFilters |-> getFilters(result),
                      hash |-> [hi |-> 0, lo |-> 0]]
  IN  { [json |-> [withFilters EXCEPT !.flatFilters = outcome.flatFilters,
                                      !.hash = outcome.hash],
         orderedQuery |-> outcome.orderedQuery] :
        outcome \in getQueryHash(withFilters) }

\* defaultQueryJSON of buildSearchQueryString, buildSearchQueryJSON(''): the
\* root fields of the default parse (the only fields read from it).
defaultQueryJSON ==
  [t |-> "json", type |-> DefaultParse.type, status |-> DefaultParse.status,
   sortBy |-> DefaultParse.sortBy, sortOrder |-> DefaultParse.sortOrder,
   policyID |-> DefaultParse.policyID]

\* queryJSON?.[key] for a root key; the empty string when there is none.
RootField(queryJSON, key) ==
  IF queryJSON.t # "json" THEN <<>>
  ELSE CASE key = S_policyID -> queryJSON.policyID
         [] key = S_type -> queryJSON.type
         [] key = S_status -> queryJSON.status
         [] key = S_sortBy -> queryJSON.sortBy
         [] key = S_sortOrder -> queryJSON.sortOrder

\* The first loop of buildSearchQueryString: the root clauses.
RECURSIVE RootParts(_, _)
RootParts(queryJSON, keys) ==
  IF keys = <<>> THEN <<>>
  ELSE LET key == Head(keys)
           existingFieldValue == RootField(queryJSON, key)
           queryFieldValue == IF existingFieldValue # <<>> THEN existingFieldValue
                              ELSE RootField(defaultQueryJSON, key)
       IN  (IF queryFieldValue # <<>> THEN << key \o <<":">> \o queryFieldValue >>
            ELSE <<>>)
             \o RootParts(queryJSON, Tail(keys))

\* The second loop: one part per filter key the flattened filters hold.
RECURSIVE FilterParts(_, _)
FilterParts(filters, keys) ==
  IF keys = <<>> THEN <<>>
  ELSE (IF HasKey(filters, Head(keys))
        THEN << buildFilterValuesString(Head(keys), FiltersOf(filters, Head(keys))) >>
        ELSE <<>>)
         \o FilterParts(filters, Tail(keys))

\* buildSearchQueryString(queryJSON), queryJSON possibly undefined.
buildSearchQueryString(queryJSON) ==
  IF queryJSON.t # "json"
  THEN Join(RootParts(queryJSON, SYNTAX_ROOT_KEYS), <<" ">>)
  ELSE Join(RootParts(queryJSON, SYNTAX_ROOT_KEYS)
              \o FilterParts(queryJSON.flatFilters, SYNTAX_FILTER_KEYS), <<" ">>)

\* ------------------------------------------------------------ directories

(***************************************************************************)
(* The lookup directories are JavaScript objects keyed by identifier: each *)
(* is a sequence of entries in key order.  The model checks against one    *)
(* snapshot of them, with an account whose login is empty, a bank with two *)
(* cards and a tax identifier listed under two names.                      *)
(***************************************************************************)
V_1 == <<"1">>
V_2 == <<"2">>
V_5 == <<"5">>
V_7 == <<"7">>
V_8 == <<"8">>
V_a == <<"a">>
V_b == <<"b">>
V_ab == <<"a", " ", "b">>
V_mail == <<"a", "@", "x">>
V_nomail == <<"z", "@", "x">>
V_vcf == <<"v", "c", "f">>
V_nob == <<"n", "o", "b">>
V_T1 == <<"T", "1">>
V_T2 == <<"T", "2">>
V_t1 == <<"t", "1">>
V_t2 == <<"t", "2">>
V_zz == <<"z", "z">>
V_r1 == <<"r", "1">>
V_r9 == <<"r", "9">>
V_Trip == <<"T", "r", "i", "p">>
V_p1 == <<"p", "1">>

PersonalDetails ==
  << [accountID |-> V_1, login |-> V_mail], [accountID |-> V_2, login |-> <<>>] >>

CardList == << [cardID |-> V_7, bank |-> V_vcf], [cardID |-> V_8, bank |-> V_vcf] >>

TaxRates == << [name |-> V_T1, ids |-> <<V_t1, V_t2>>], [name |-> V_T2, ids |-> <<V_t1>>] >>

Reports == << [reportID |-> V_r1, reportName |-> V_Trip] >>

\* Array.prototype.flat of a sequence of sequences.
RECURSIVE Flat(_)
Flat(lists) == IF lists = <<>> THEN <<>> ELSE Head(lists) \o Flat(Tail(lists))

\* PersonalDetailsUtils.getPersonalDetailByEmail(email)?.accountID.toString() ?? email
AccountIDOrEmail(email) ==
  LET found == SelectSeq(PersonalDetails, LAMBDA detail : detail.login = email)
  IN  IF found # <<>> THEN found[1].accountID ELSE email

\* Object.values(cardList).filter((card) => card.bank === bank).map((card) => card.cardID.toString())
CardIDsOfBank(cardList, bank) ==
  LET cards == SelectSeq(cardList, LAMBDA card : card.bank = bank)
  IN  [i \in 1..Len(cards) |-> cards[i].cardID]

\* taxRates[name] ?? name, as a list
TaxIDsOrName_twice(taxRates, name) ==
  LET found == SelectSeq(taxRates, LAMBDA rate : rate.name = name)
  IN  IF found # <<>> THEN found[1].ids ELSE <<name, name>>

TaxIDsOrName(taxRates, name) ==
  LET found == SelectSeq(taxRates, LAMBDA rate : rate.name = name)
  IN  IF found # <<>> THEN found[1].ids ELSE <<name>>

\* ------------------------------------------------------------ standardizer

\* findIDFromDisplayValue: filter is the right-hand side of a node, a string or a
\* list of strings, and so is the result.
findIDFromDisplayValue(filterName, filter, cardList, taxRates) ==
  IF filterName = S_from \/ filterName = S_to
  THEN IF filter.t = "str" THEN StrOf(AccountIDOrEmail(filter.s))
       ELSE ListOf([i \in 1..Len(filter.l) |-> AccountIDOrEmail(filter.l[i])])
  ELSE IF filterName = S_taxRate
  THEN LET names == IF filter.t = "list" THEN filter.l ELSE <<filter.s>>
       IN  ListOf(Flat([i \in 1..Len(names) |-> TaxIDsOrName(taxRates, names[i])]))
  ELSE IF filterName = S_cardID
  THEN IF filter.t = "str"
       THEN LET ids == CardIDsOfBank(cardList, filter.s)
            IN  IF Len(ids) > 0 THEN ListOf(ids) ELSE filter
       ELSE ListOf(Flat([i \in 1..Len(filter.l) |-> CardIDsOfBank(cardList, filter.l[i])]))
  ELSE filter

\* traverse of standardizeQueryJSON: the node as the traversal leaves it.
RECURSIVE StandardizeNode(_, _, _)
StandardizeNode(node, cardList, taxRates) ==
  IF node.operator = "" THEN node
  ELSE LET left == IF IsNode(node.left)
                   THEN NodeOf(StandardizeNode(node.left.n, cardList, taxRates))
                   ELSE node.left
           right == IF IsNode(node.right)
                    THEN NodeOf(StandardizeNode(node.right.n, cardList, taxRates))
                    ELSE node.right
       IN  IF node.left.t = "key"
           THEN [operator |-> node.operator, left |-> left,
                 right |-> findIDFromDisplayValue(node.left.k, right, cardList, taxRates)]
           ELSE [operator |-> node.operator, left |-> left, right |-> right]

\* The object standardizeQueryJSON holds when it returns, standardQuery being the
\* object it works on.
Standardized(standardQuery, cardList, taxRates) ==
  LET rewritten ==
        IF standardQuery.filters.t = "node"
        THEN [standardQuery EXCEPT
                !.filters = NodeOf(StandardizeNode(standardQuery.filters.n, cardList, taxRates))]
        ELSE standardQuery
  IN  [rewritten EXCEPT !.flatFilters = getFilters(rewritten)]

\* ------------------------------------------------------------ display formatter

\* x || filter
OrElse(x, filter) == IF x # <<>> THEN x ELSE filter

\* getDisplayValue
getDisplayValue(filterName, filter, personalDetails, cardList, reports) ==
  IF filterName = S_from \/ filterName = S_to
  THEN LET found == SelectSeq(personalDetails, LAMBDA detail : detail.accountID = filter)
       IN  IF found # <<>> THEN OrElse(found[1].login, filter) ELSE filter
  ELSE IF filterName = S_cardID
  THEN LET found == SelectSeq(cardList, LAMBDA card : card.cardID = filter)
       IN  IF found # <<>> THEN OrElse(found[1].bank, filter) ELSE filter
  ELSE IF filterName = S_in
  THEN LET found == SelectSeq(reports, LAMBDA report : report.reportID = filter)
       IN  IF found # <<>> THEN OrElse(found[1].reportName, filter) ELSE filter
  ELSE filter

\* The names of the tax rates whose identifiers include id, or id when none does.
TaxNamesOrID(taxRates, id) ==
  LET rates == SelectSeq(taxRates, LAMBDA rate : \E i \in 1..Len(rate.ids) : rate.ids[i] = id)
  IN  IF Len(rates) > 0 THEN [i \in 1..Len(rates) |-> rates[i].name] ELSE <<id>>

\* displayQueryFilters of one key.
DisplayQueryFilters(key, queryFilter, personalDetails, cardList, reports, taxRates) ==
  IF key = S_taxRate
  THEN LET taxRateNames ==
             Flat([i \in 1..Len(queryFilter) |-> TaxNamesOrID(taxRates, queryFilter[i].value)])
       IN  [i \in 1..Len(taxRateNames) |->
              [operator |-> IF queryFilter # <<>> THEN queryFilter[1].operator ELSE "and",
               value |-> taxRateNames[i]]]
  ELSE [i \in 1..Len(queryFilter) |->
          [operator |-> queryFilter[i].operator,
           value |-> getDisplayValue(key, queryFilter[i].value, personalDetails, cardList, reports)]]

RECURSIVE TitleFilters(_, _, _, _, _)
TitleFilters(filters, personalDetails, cardList, reports, taxRates) ==
  IF filters = <<>> THEN <<>>
  ELSE buildFilterValuesString(Head(filters).key,
         DisplayQueryFilters(Head(filters).key, Head(filters).filters,
                             personalDetails, cardList, reports, taxRates))
         \o TitleFilters(Tail(filters), personalDetails, cardList, reports, taxRates)

\* buildUserReadableQueryString
buildUserReadableQueryString(queryJSON, personalDetails, cardList, reports, taxRates) ==
  S_type \o <<":">> \o queryJSON.type \o <<" ">> \o S_status \o <<":">> \o queryJSON.status
    \o TitleFilters(queryJSON.flatFilters, personalDetails, cardList, reports, taxRates)

\* ------------------------------------------------------------ query to form

S_dateBefore == <<"d", "a", "t", "e", "B", "e", "f", "o", "r", "e">>
S_dateAfter == <<"d", "a", "t", "e", "A", "f", "t", "e", "r">>
S_lessThan == <<"l", "e", "s", "s", "T", "h", "a", "n">>
S_greaterThan == <<"g", "r", "e", "a", "t", "e", "r", "T", "h", "a", "n">>
S_none == <<"n", "o", "n", "e">>
S_cash == <<"c", "a", "s", "h">>
S_card == <<"c", "a", "r", "d">>
S_distance == <<"d", "i", "s", "t", "a", "n", "c", "e">>
V_USD == <<"U", "S", "D">>
V_Food == <<"F", "o", "o", "d">>
V_Taxi == <<"T", "a", "x", "i">>
V_Dept == <<"D", "e", "p", "t">>
V_p2 == <<"p", "2">>

\* CONST.SEARCH.EMPTY_VALUE
EMPTY_VALUE == S_none

\* Object.values(CONST.SEARCH.TRANSACTION_TYPE)
TRANSACTION_TYPE == << S_cash, S_card, S_distance >>

\* Object.entries(CONST.SEARCH.DATA_TYPES)
DATA_TYPES ==
  << [key |-> "EXPENSE", value |-> S_expense], [key |-> "INVOICE", value |-> S_invoice],
     [key |-> "TRIP", value |-> S_trip], [key |-> "CHAT", value |-> S_chat] >>

\* Object.entries(CONST.SEARCH.STATUS): the statuses of each data type.
STATUS ==
  << [key |-> "EXPENSE", value |-> <<S_all, S_drafts, S_outstanding, S_approved, S_paid>>],
     [key |-> "INVOICE", value |-> <<S_all, S_outstanding, S_paid>>],
     [key |-> "TRIP", value |-> <<S_all, S_current, S_past>>],
     [key |-> "CHAT", value |-> <<S_all, S_unread, S_sent>>] >>

\* The other directories of the snapshot: the currencies, and the category and
\* tag names of each policy.
CurrencyList == << [code |-> V_USD] >>
PolicyCategories == << [policyID |-> V_p1, names |-> <<V_Food>>],
                       [policyID |-> V_p2, names |-> <<V_Taxi>>] >>
PolicyTags == << [policyID |-> V_p1, names |-> <<V_Dept>>] >>

Includes(seq, x) == \E i \in 1..Len(seq) : seq[i] = x

Digits == { Alphabet[i] : i \in 17..26 }
DigitValue(c) == CharCode(c) - 48

\* ValidationUtils.isValidDate: a well-formed yyyy-mm-dd date.
isValidDate(date) ==
  /\ Len(date) = 10
  /\ \A i \in {1, 2, 3, 4, 6, 7, 9, 10} : date[i] \in Digits
  /\ date[5] = "-" /\ date[8] = "-"
  /\ (10 * DigitValue(date[6]) + DigitValue(date[7])) \in 1..12
  /\ (10 * DigitValue(date[9]) + DigitValue(date[10])) \in 1..31

\* MoneyRequestUtils.validateAmount(amount, 2): digits, then at most a point and
\* two decimals.
validateAmount(amount) ==
  \E n \in 1..Len(amount) :
    /\ \A i \in 1..n : amount[i] \in Digits
    /\ \/ n = Len(amount)
       \/ /\ amount[n + 1] = "."
          /\ Len(amount) - (n + 1) <= 2
          /\ \A i \in (n + 2)..Len(amount) : amount[i] \in Digits

\* filtersForm[key] = value
FormSet(form, key, value) ==
  IF \E i \in 1..Len(form) : form[i].key = key
  THEN [i \in 1..Len(form) |-> IF form[i].key = key THEN [key |-> key, value |-> value]
                                ELSE form[i]]
  ELSE Append(form, [key |-> key, value |-> value])

FormHas(form, key) == \E i \in 1..Len(form) : form[i].key = key
FormGet(form, key) ==
  IF FormHas(form, key) THEN form[CHOOSE i \in 1..Len(form) : form[i].key = key].value
  ELSE Undefined

\* filters.map((filter) => filter.value.toString())
ValuesOf(queryFilters) == [i \in 1..Len(queryFilters) |-> queryFilters[i].value]

\* The validation of the values of the date key and of the amount key.
IsValid(filterKey, value) ==
  IF filterKey = S_date THEN isValidDate(value) ELSE validateAmount(value)

\* filters[filterKey]?.find((filter) => filter.operator === operator &&
\* valid(filter.value.toString()))?.value.toString()
FirstValid_unvalidated(filterKey, queryFilters, operator) ==
  LET found == SelectSeq(queryFilters, LAMBDA filter : filter.operator = operator)
  IN  IF found # <<>> THEN StrOf(found[1].value) ELSE Undefined

FirstValid(filterKey, queryFilters, operator) ==
  LET found == SelectSeq(queryFilters,
                         LAMBDA filter : filter.operator = operator
                                           /\ IsValid(filterKey, filter.value))
  IN  IF found # <<>> THEN StrOf(found[1].value) ELSE Undefined

ValuesOfNames(directory) == [i \in 1..Len(directory) |-> directory[i].names]

\* The names a tag or category filter may hold: those of the policy of the query,
\* or of every policy when the query has none, and the empty value.
NamesInScope_scopedWithoutEmpty(directory, policyID) ==
  IF policyID # <<>>
  THEN Flat(ValuesOfNames(SelectSeq(directory, LAMBDA entry : entry.policyID = policyID)))
  ELSE Flat(ValuesOfNames(directory)) \o <<EMPTY_VALUE>>

NamesInScope(directory, policyID) ==
  (IF policyID # <<>>
   THEN Flat(ValuesOfNames(SelectSeq(directory, LAMBDA entry : entry.policyID = policyID)))
   ELSE Flat(ValuesOfNames(directory)))
    \o <<EMPTY_VALUE>>

\* The body of the loop of buildFilterFormValuesFromQuery for one key.
FormForKey(filtersForm, filterKey, queryFilters, policyID, policyCategories, policyTags, currencyList, personalDetails, cardList, reports, taxRates) ==
  LET values == ValuesOf(queryFilters)
      Kept(valid) == ListOf(SelectSeq(values, LAMBDA value : Includes(valid, value)))
  IN  CASE filterKey \in {S_reportID, S_merchant, S_description} ->
             FormSet(filtersForm, filterKey,
                     IF queryFilters # <<>> THEN StrOf(queryFilters[1].value) ELSE Undefined)
        [] filterKey = S_expenseType ->
             FormSet(filtersForm, filterKey, Kept(TRANSACTION_TYPE))
        [] filterKey = S_cardID ->
             FormSet(filtersForm, filterKey,
                     Kept([i \in 1..Len(cardList) |-> cardList[i].cardID]))
        [] filterKey = S_taxRate ->
             FormSet(filtersForm, filterKey,
                     Kept(Flat([i \in 1..Len(taxRates) |-> taxRates[i].ids])))
        [] filterKey = S_in ->
             FormSet(filtersForm, filterKey,
                     Kept([i \in 1..Len(reports) |-> reports[i].reportID]))
        [] filterKey \in {S_from, S_to} ->
             FormSet(filtersForm, filterKey,
                     Kept([i \in 1..Len(personalDetails) |-> personalDetails[i].accountID]))
        [] filterKey = S_currency ->
             FormSet(filtersForm, filterKey,
                     Kept([i \in 1..Len(currencyList) |-> currencyList[i].code]))
        [] filterKey = S_tag ->
             FormSet(filtersForm, filterKey, Kept(NamesInScope(policyTags, policyID)))
        [] filterKey = S_category ->
             FormSet(filtersForm, filterKey, Kept(NamesInScope(policyCategories, policyID)))
        [] filterKey = S_keyword ->
             FormSet(filtersForm, filterKey,
                     StrOf(Join([i \in 1..Len(values) |->
                                   IF Includes(values[i], " ")
                                   THEN <<"\"">> \o values[i] \o <<"\"">>
                                   ELSE values[i]], <<" ">>)))
        [] filterKey = S_date ->
             FormSet(FormSet(filtersForm, S_dateBefore, FirstValid(filterKey, queryFilters, "lt")),
                     S_dateAfter, FirstValid(filterKey, queryFilters, "gt"))
        [] filterKey = S_amount ->
             FormSet(FormSet(filtersForm, S_lessThan, FirstValid(filterKey, queryFilters, "lt")),
                     S_greaterThan, FirstValid(filterKey, queryFilters, "gt"))
        [] OTHER -> filtersForm

RECURSIVE FormForKeys(_, _, _, _, _, _, _, _, _, _)
FormForKeys(filtersForm, filters, policyID, policyCategories, policyTags, currencyList, personalDetails, cardList, reports, taxRates) ==
  IF filters = <<>> THEN filtersForm
  ELSE FormForKeys(
         FormForKey(filtersForm, Head(filters).key, Head(filters).filters, policyID,
                    policyCategories, policyTags, currencyList, personalDetails,
                    cardList, reports, taxRates),
         Tail(filters), policyID, policyCategories, policyTags,
         currencyList, personalDetails, cardList, reports, taxRates)

\* Object.entries(CONST.SEARCH.DATA_TYPES).find(([, value]) => value === type):
\* the key of the data type, '' when there is none.
TypeKey(type) ==
  LET found == SelectSeq(DATA_TYPES, LAMBDA entry : entry.value = type)
  IN  IF found # <<>> THEN found[1].key ELSE ""

\* Object.entries(CONST.SEARCH.STATUS).find(([, value]) =>
\* Object.values(value).includes(status)): the key of the first family that holds
\* the status; "undefined" when none does.
StatusKey(status) ==
  LET found == SelectSeq(STATUS, LAMBDA entry : Includes(entry.value, status))
  IN  IF found # <<>> THEN found[1].key ELSE "undefined"

\* The type and status fields of the form.
FormType(queryJSON) ==
  IF TypeKey(queryJSON.type) # "" THEN queryJSON.type ELSE S_expense

FormStatus(queryJSON) ==
  IF TypeKey(queryJSON.type) = StatusKey(queryJSON.status) THEN queryJSON.status ELSE S_all

\* buildFilterFormValuesFromQuery
buildFilterFormValuesFromQuery(queryJSON, policyCategories, policyTags, currencyList, personalDetails, cardList, reports, taxRates) ==
  LET perKey == FormForKeys(<<>>, queryJSON.flatFilters, queryJSON.policyID,
                            policyCategories, policyTags, currencyList, personalDetails,
                            cardList, reports, taxRates)
      typed == FormSet(perKey, S_type, StrOf(FormType(queryJSON)))
      withStatus == FormSet(typed, S_status, StrOf(FormStatus(queryJSON)))
  IN  IF queryJSON.policyID # <<>>
      THEN FormSet(withStatus, S_policyID, StrOf(queryJSON.policyID))
      ELSE withStatus

\* ------------------------------------------------------------ the parser's results

Leaf(operator, key, right) == [operator |-> operator, left |-> KeyOf(key), right |-> right]
Connective(operator, left, right) ==
  [operator |-> operator, left |-> NodeOf(left), right |-> NodeOf(right)]
\* A node without operator: a bare value.
ValueNode == [operator |-> "", left |-> Absent, right |-> Absent]

\* The ASTs of at most n leaves over the given leaves and connectives.
RECURSIVE Trees(_, _, _)
Trees(leaves, connectives, n) ==
  IF n <= 1 THEN leaves
  ELSE Trees(leaves, connectives, n - 1) \cup
       UNION { { Connective(c, l, r) :
                   c \in connectives,
                   l \in Trees(leaves, connectives, i),
                   r \in Trees(leaves, connectives, n - i) } : i \in 1..(n - 1) }

S_foo == <<"f", "o", "o">>
V_date0 == <<"2", "0", "2", "4", "-", "0", "0", "-", "0", "2">>
V_date1 == <<"2", "0", "2", "4", "-", "0", "1", "-", "0", "2">>
V_date2 == <<"2", "0", "2", "4", "-", "0", "3", "-", "0", "4">>
V_amount0 == <<"1", ".", "2", "3", "4">>
V_amount1 == <<"1", "0", ".", "5", "0">>
V_amount2 == <<"7">>
V_bogus == <<"b", "o", "g", "u", "s">>

\* Filters on free-text keys: equal values under different operators, lists,
\* a value that needs quoting, keywords, a key that is no filter key, a bare value.
SerializeLeaves ==
  { Leaf("eq", S_merchant, StrOf(V_a)), Leaf("neq", S_merchant, StrOf(V_a)),
    Leaf("eq", S_merchant, ListOf(<<V_b, V_a>>)), Leaf("gt", S_merchant, StrOf(V_5)),
    Leaf("eq", S_description, StrOf(V_ab)), Leaf("eq", S_keyword, ListOf(<<V_b, V_a>>)),
    Leaf("eq", S_foo, StrOf(V_a)), ValueNode }

\* Filters whose values the directories resolve, or do not.
DirectoryLeaves ==
  { Leaf("eq", S_from, StrOf(V_mail)), Leaf("eq", S_from, ListOf(<<V_nomail, V_mail>>)),
    Leaf("eq", S_to, StrOf(V_1)), Leaf("neq", S_to, ListOf(<<V_2, V_1>>)),
    Leaf("eq", S_cardID, StrOf(V_vcf)), Leaf("eq", S_cardID, StrOf(V_nob)),
    Leaf("eq", S_cardID, ListOf(<<V_nob, V_vcf>>)), Leaf("neq", S_cardID, ListOf(<<V_8, V_7>>)),
    Leaf("eq", S_taxRate, StrOf(V_T1)), Leaf("neq", S_taxRate, ListOf(<<V_zz, V_T1>>)),
    Leaf("eq", S_taxRate, StrOf(V_t1)),
    Leaf("eq", S_in, StrOf(V_r1)), Leaf("eq", S_in, StrOf(V_r9)) }

\* Date and amount filters, with valid and invalid values.
RangeLeaves ==
  { Leaf("lt", S_date, StrOf(V_date0)), Leaf("lt", S_date, StrOf(V_date1)),
    Leaf("lt", S_date, StrOf(V_date2)), Leaf("gt", S_date, StrOf(V_date1)),
    Leaf("lte", S_date, StrOf(V_date1)), Leaf("gt", S_date, StrOf(V_bogus)),
    Leaf("lt", S_amount, StrOf(V_amount0)), Leaf("lt", S_amount, StrOf(V_amount1)),
    Leaf("gt", S_amount, StrOf(V_amount2)), Leaf("gte", S_amount, StrOf(V_amount2)) }

RootsOf(asts) ==
  { [DefaultParse EXCEPT !.filters = NodeOf(ast)] : ast \in asts }

\* Root fields of every kind, with and without a policy and filters.
RootResults ==
  { [type |-> type, status |-> status, sortBy |-> S_date, sortOrder |-> S_desc,
     policyID |-> policyID, filters |-> filters] :
      type \in {S_expense, S_invoice, S_trip, V_bogus},
      status \in {S_all, S_drafts, S_paid, S_current, V_bogus},
      policyID \in {<<>>, V_p1},
      filters \in {Absent, NodeOf(Leaf("eq", S_merchant, StrOf(V_a)))} }

\* Filters on the keys whose form fields are lists checked against a directory
\* of the snapshot or an enumeration: values it holds, values it does not, and
\* the empty value.
ListLeaves ==
  { Leaf("eq", S_currency, ListOf(<<V_zz, V_USD>>)),
    Leaf("neq", S_currency, StrOf(V_USD)),
    Leaf("eq", S_category, ListOf(<<V_Taxi, EMPTY_VALUE, V_zz, V_Food>>)),
    Leaf("eq", S_tag, ListOf(<<V_zz, EMPTY_VALUE, V_Dept>>)),
    Leaf("eq", S_expenseType, ListOf(<<S_distance, V_bogus, S_cash>>)) }

\* Such filters under no policy, a policy with categories and tags, and a policy
\* with categories only.
ListResults ==
  { [DefaultParse EXCEPT !.filters = NodeOf(leaf), !.policyID = policyID] :
      leaf \in ListLeaves, policyID \in {<<>>, V_p1, V_p2} }

\* What searchParser.parse may return in the model.
ParseResults ==
  RootsOf(Trees(SerializeLeaves, {"and", "or"}, MaxLeaves))
    \cup RootsOf(Trees(DirectoryLeaves, {"and"}, MaxLeaves))
    \cup RootsOf(Trees(RangeLeaves, {"and"}, MaxLeaves))
    \cup RootResults
    \cup ListResults

\* The text of one comparison in the query grammar.
RightText(right) == IF right.t = "list" THEN Join(right.l, <<",">>) ELSE right.s

\* A query string the grammar parses to the node: the clauses separated by spaces.
RECURSIVE NodeText(_)
NodeText(node) ==
  IF node.operator = "" THEN <<>>
  ELSE IF node.left.t = "key"
  THEN <<" ">> \o node.left.k \o operatorToCharMap[node.operator] \o RightText(node.right)
  ELSE NodeText(node.left.n) \o NodeText(node.right.n)

\* A query string that parses to result.
QueryText(result) ==
  S_type \o <<":">> \o result.type \o <<" ">> \o S_status \o <<":">> \o result.status
    \o (IF result.policyID # <<>> THEN <<" ">> \o S_policyID \o <<":">> \o result.policyID
        ELSE <<>>)
    \o (IF result.filters.t = "node" THEN NodeText(result.filters.n) ELSE <<>>)

\* ------------------------------------------------------------ state

VARIABLES
  query,    \* the query string given to buildSearchQueryJSON
  parsed,   \* what searchParser.parse(query) does: a result, or a thrown error
  heap,     \* the SearchQueryJSON objects, by reference
  pc,       \* the call that returned last
  arg,      \* the reference that call was given
  ret,      \* what that call returned
  hashed    \* the text the last getQueryHash handed to hashText

vars == <<query, parsed, heap, pc, arg, ret, hashed>>

\* "result" is the object buildSearchQueryJSON returns, "standardQuery" and
\* "restandardQuery" the copies standardizeQueryJSON makes, "filterValues" the
\* form-values object given to buildQueryStringFromFilterFormValues.
Refs == {"result", "standardQuery", "restandardQuery", "filterValues"}

RefOf(ref) == [t |-> "ref", ref |-> ref]
FormOf(form) == [t |-> "form", form |-> form]

\* S_error: a query the grammar rejects.
V_error == <<"t", "y", "p", "e", ":">>

Init ==
  /\ \/ /\ parsed = [t |-> "error"]
        /\ query = V_error
     \/ \E result \in ParseResults :
          /\ parsed = [t |-> "ok", result |-> result]
          /\ query = QueryText(result)
  /\ heap = [ref \in Refs |-> Undefined]
  /\ pc = "start"
  /\ arg = "result"
  /\ ret = Undefined
  /\ hashed = <<>>

\* buildSearchQueryJSON(query): undefined when the parser throws.
BuildSearchQueryJSON ==
  /\ pc = "start"
  /\ \/ /\ parsed.t = "error"
        /\ pc' = "failed"
        /\ ret' = Undefined
        /\ UNCHANGED <<heap, hashed>>
     \/ /\ parsed.t = "ok"
        /\ \E built \in BuiltQueries(query, parsed.result) :
             /\ heap' = [heap EXCEPT !["result"] = built.json]
             /\ hashed' = built.orderedQuery
        /\ pc' = "built"
        /\ ret' = RefOf("result")
  /\ arg' = "result"
  /\ UNCHANGED <<query, parsed>>

\* The calls below read their argument only, so the model makes one of them
\* after any sequence of the calls that make objects, and stops there.
Ready == pc \in {"built", "failed", "standardized"}

\* buildSearchQueryString(queryJSON), also of the undefined a failed parse left.
BuildSearchQueryString(ref) ==
  /\ Ready
  /\ \/ heap[ref].t = "json"
     \/ pc = "failed" /\ ref = "result"
  /\ pc' = "string"
  /\ arg' = ref
  /\ ret' = StrOf(buildSearchQueryString(heap[ref]))
  /\ UNCHANGED <<query, parsed, heap, hashed>>

\* lodash's cloneDeep: a new object, equal to the one at ref, at a reference of
\* its own.
cloneDeep_alias(objects, ref) == [ref |-> ref, heap |-> objects]

cloneDeep(objects, ref) ==
  LET copy == IF ref = "result" THEN "standardQuery" ELSE "restandardQuery"
  IN  [ref |-> copy, heap |-> [objects EXCEPT ![copy] = objects[ref]]]

\* standardizeQueryJSON(queryJSON, cardList, taxRates)
StandardizeQueryJSON(ref) ==
  /\ Ready
  /\ heap[ref].t = "json"
  /\ ref \in {"result", "standardQuery"}
  /\ heap[IF ref = "result" THEN "standardQuery" ELSE "restandardQuery"].t = "undefined"
  /\ LET clone == cloneDeep(heap, ref)
     IN  /\ heap' = [clone.heap EXCEPT
                       ![clone.ref] = Standardized(clone.heap[clone.ref], CardList, TaxRates)]
         /\ ret' = RefOf(clone.ref)
  /\ pc' = "standardized"
  /\ arg' = ref
  /\ UNCHANGED <<query, parsed, hashed>>

\* buildFilterFormValuesFromQuery(queryJSON, ...directories)
BuildFilterFormValuesFromQuery(ref) ==
  /\ Ready
  /\ heap[ref].t = "json"
  /\ pc' = "form"
  /\ arg' = ref
  /\ ret' = FormOf(buildFilterFormValuesFromQuery(heap[ref], PolicyCategories, PolicyTags,
                     CurrencyList, PersonalDetails, CardList, Reports, TaxRates))
  /\ UNCHANGED <<query, parsed, heap, hashed>>

\* buildUserReadableQueryString(queryJSON, ...directories)
BuildUserReadableQueryString(ref) ==
  /\ Ready
  /\ heap[ref].t = "json"
  /\ pc' = "title"
  /\ arg' = ref
  /\ ret' = StrOf(buildUserReadableQueryString(heap[ref], PersonalDetails, CardList,
                                               Reports, TaxRates))
  /\ UNCHANGED <<query, parsed, heap, hashed>>

Next ==
  \/ BuildSearchQueryJSON
  \/ \E ref \in Refs :
       \/ BuildSearchQueryString(ref)
       \/ StandardizeQueryJSON(ref)
       \/ BuildFilterFormValuesFromQuery(ref)
       \/ BuildUserReadableQueryString(ref)

Spec == Init /\ [][Next]_vars

\* ------------------------------------------------------------ claims

\* Every arrangement of a sequence.
Arrangements(seq) ==
  { [i \in 1..Len(seq) |-> seq[p[i]]] : p \in Permutations(1..Len(seq)) }

\* The flattened filters with the entries of every key in any order.
RECURSIVE EntryReorderings(_)
EntryReorderings(flatFilters) ==
  IF flatFilters = <<>> THEN { <<>> }
  ELSE { <<[key |-> Head(flatFilters).key, filters |-> entries]>> \o rest :
           entries \in Arrangements(Head(flatFilters).filters),
           rest \in EntryReorderings(Tail(flatFilters)) }

\* The flattened filters with the keys, and the entries of every key, in any order.
Reorderings(flatFilters) ==
  UNION { Arrangements(reordered) : reordered \in EntryReorderings(flatFilters) }

\* C1: two queries with the same root fields and, under every key, the same
\* entries, in whatever order the keys and the entries were inserted, hash to
\* the same number (the same text is handed to the hash routine), also when two
\* entries of a key have equal values and different operators.
C1_HashStableUnderReordering ==
  pc = "built" =>
    \A other \in Reorderings(heap["result"].flatFilters) :
      \A outcome \in getQueryHash([heap["result"] EXCEPT !.flatFilters = other]) :
        /\ outcome.orderedQuery = hashed
        /\ outcome.hash = heap["result"].hash

\* C2: computing the hash leaves the flattened filters as the flattener made
\* them: the object buildSearchQueryJSON returns holds, under every key, the
\* entries in the order the AST gives them.
C2_HashLeavesFlatFilters ==
  pc = "built" => heap["result"].flatFilters = getFilters(heap["result"])

\* Whether the claim has entry i of the sequence appended to the clause before it.
Merged(queryFilters, i) ==
  /\ i > 1
  /\ queryFilters[i].operator = queryFilters[i - 1].operator
  /\ queryFilters[i].operator \in {"eq", "neq"}

\* The last entry of the clause that entry i starts.
ClauseEnd(queryFilters, i) ==
  CHOOSE j \in i..Len(queryFilters) :
    /\ \A k \in (i + 1)..j : Merged(queryFilters, k)
    /\ j = Len(queryFilters) \/ ~Merged(queryFilters, j + 1)

\* The clause that entry i starts: key, operator token, the values with commas.
ClauseText(filterName, queryFilters, i) ==
  filterName \o operatorToCharMap[queryFilters[i].operator]
    \o Join([k \in 1..(ClauseEnd(queryFilters, i) - i + 1) |->
               sanitizeSearchValue(queryFilters[i + k - 1].value)], <<",">>)

\* The clauses from entry i on, each after one space.
RECURSIVE ClausesFrom(_, _, _)
ClausesFrom(filterName, queryFilters, i) ==
  IF i > Len(queryFilters) THEN <<>>
  ELSE <<" ">> \o ClauseText(filterName, queryFilters, i)
         \o ClausesFrom(filterName, queryFilters, ClauseEnd(queryFilters, i) + 1)

\* C3: the string of a key that is not the keyword key, for a sequence that is
\* not empty, is its clauses, each after one space: an entry joins the clause of
\* the entry before it, as ",value", exactly when both have operator eq or both
\* neq, and starts a clause key<operator>value otherwise.  merchant with
\* [eq a, eq b] gives the one clause merchant:a,b, and with [eq a, gt 5] the two
\* clauses merchant:a merchant>5.
C3_MergeRule ==
  /\ \A ref \in Refs :
       heap[ref].t = "json" =>
         \A i \in 1..Len(heap[ref].flatFilters) :
           LET entry == heap[ref].flatFilters[i]
           IN  entry.key # S_keyword /\ entry.filters # <<>> =>
                 buildFilterValuesString(entry.key, entry.filters)
                   = ClausesFrom(entry.key, entry.filters, 1)
  /\ buildFilterValuesString(S_merchant, << [operator |-> "eq", value |-> V_a],
                                            [operator |-> "eq", value |-> V_b] >>)
       = <<" ">> \o S_merchant \o <<":", "a", ",", "b">>
  /\ buildFilterValuesString(S_merchant, << [operator |-> "eq", value |-> V_a],
                                            [operator |-> "gt", value |-> V_5] >>)
       = <<" ">> \o S_merchant \o <<":", "a", " ">> \o S_merchant \o <<">", "5">>

\* C3's case: an object holds a key whose sequence has an entry that joins the
\* clause before it and a later entry that starts a clause.
C3_Witness ==
  \E ref \in Refs :
    /\ heap[ref].t = "json"
    /\ \E i \in 1..Len(heap[ref].flatFilters) :
         LET entry == heap[ref].flatFilters[i]
         IN  /\ entry.key # S_keyword
             /\ \E j, k \in 2..Len(entry.filters) :
                  Merged(entry.filters, j) /\ ~Merged(entry.filters, k)

\* The string without its first character when that is a space.
WithoutLeadingSpace(str) == IF str # <<>> /\ Head(str) = " " THEN Tail(str) ELSE str

\* The string the claim describes: the root clauses, then the fragment of every
\* key the filters hold, in the order of the enumerations, one space between.
ExpectedQueryString(queryJSON) ==
  LET rootClauses ==
        Flat([i \in 1..Len(SYNTAX_ROOT_KEYS) |->
                IF RootField(queryJSON, SYNTAX_ROOT_KEYS[i]) # <<>>
                THEN << SYNTAX_ROOT_KEYS[i] \o <<":">> \o RootField(queryJSON, SYNTAX_ROOT_KEYS[i]) >>
                ELSE <<>>])
      fragments ==
        Flat([i \in 1..Len(SYNTAX_FILTER_KEYS) |->
                IF HasKey(queryJSON.flatFilters, SYNTAX_FILTER_KEYS[i])
                THEN << WithoutLeadingSpace(
                          buildFilterValuesString(SYNTAX_FILTER_KEYS[i],
                            FiltersOf(queryJSON.flatFilters, SYNTAX_FILTER_KEYS[i]))) >>
                ELSE <<>>])
  IN  Join(SelectSeq(rootClauses \o fragments, LAMBDA part : part # <<>>), <<" ">>)

\* C4: buildSearchQueryString returns the root clauses in the order of the root
\* keys, then one fragment per key of the filters in the order of the filter
\* keys, with exactly one space between adjacent clauses and none at either end.
C4_QueryStringSingleSpaced ==
  pc = "string" /\ heap[arg].t = "json" => ret.s = ExpectedQueryString(heap[arg])

\* The nodes of an AST with an operator and a recognized filter key on the left,
\* in post order: those of the left subtree, those of the right subtree (a list
\* is no subtree), then the node itself.
RECURSIVE PostOrder(_)
PostOrder(node) ==
  IF node.operator = "" THEN <<>>
  ELSE (IF node.left.t = "node" THEN PostOrder(node.left.n) ELSE <<>>)
         \o (IF node.right.t = "node" THEN PostOrder(node.right.n) ELSE <<>>)
         \o (IF node.left.t = "key" /\ Includes(SYNTAX_FILTER_KEYS, node.left.k)
             THEN <<node>> ELSE <<>>)

\* The entries of one such node: one for a scalar, one per element of a list.
EntriesOfNode(node) ==
  IF node.right.t = "list"
  THEN [i \in 1..Len(node.right.l) |-> [operator |-> node.operator, value |-> node.right.l[i]]]
  ELSE << [operator |-> node.operator, value |-> node.right.s] >>

\* The flattening of an AST as the claims describe it: the keys in the order of
\* their first node, and under each key the entries of its nodes in post order.
Flattening(filters) ==
  IF filters.t # "node" THEN <<>>
  ELSE LET nodes == PostOrder(filters.n)
           firsts == SelectSeq([i \in 1..Len(nodes) |-> [i |-> i, key |-> nodes[i].left.k]],
                               LAMBDA e : \A j \in 1..(e.i - 1) : nodes[j].left.k # e.key)
       IN  [n \in 1..Len(firsts) |->
              [key |-> firsts[n].key,
               filters |-> Flat([m \in 1..Len(nodes) |->
                                   IF nodes[m].left.k = firsts[n].key
                                   THEN EntriesOfNode(nodes[m]) ELSE <<>>])]]

\* Two ASTs with the same nodes, operators and left values.
RECURSIVE SameShape(_, _)
SameShape(node, other) ==
  /\ other.operator = node.operator
  /\ IF node.left.t = "node"
     THEN other.left.t = "node" /\ SameShape(node.left.n, other.left.n)
     ELSE other.left = node.left
  /\ IF node.right.t = "node"
     THEN other.right.t = "node" /\ SameShape(node.right.n, other.right.n)
     ELSE other.right.t # "node"

\* C5: standardizeQueryJSON leaves the object it was given (the AST with the
\* right-hand side of every node, and the flattened filters) as it was, and
\* returns another object with the same nodes, operators and left values, the
\* same type, status, sortBy, sortOrder, policyID, inputQuery and hash, whose
\* flattened filters are the flattening of its rewritten AST.
C5_StandardizeLeavesArgument ==
  [][pc' = "standardized" =>
       LET given == heap[arg']
           returned == heap'[ret'.ref]
       IN  /\ ret'.ref # arg'
           /\ \A ref \in Refs \ {ret'.ref} : heap'[ref] = heap[ref]
           /\ returned.type = given.type /\ returned.status = given.status
           /\ returned.sortBy = given.sortBy /\ returned.sortOrder = given.sortOrder
           /\ returned.policyID = given.policyID
           /\ returned.inputQuery = given.inputQuery /\ returned.hash = given.hash
           /\ IF given.filters.t = "node"
              THEN returned.filters.t = "node"
                   /\ SameShape(given.filters.n, returned.filters.n)
              ELSE returned.filters = given.filters
           /\ returned.flatFilters = Flattening(returned.filters)]_vars

\* C5's case: standardizeQueryJSON returned an object whose AST it rewrote.
C5_Witness ==
  /\ pc = "standardized"
  /\ heap[ret.ref].filters # heap[arg].filters
  /\ heap[ret.ref].flatFilters # heap[arg].flatFilters

\* Whether the standardizer's directory knows the display value under the key.
Resolves(key, value) ==
  \/ key \in {S_from, S_to} /\ \E i \in 1..Len(PersonalDetails) : PersonalDetails[i].login = value
  \/ key = S_taxRate /\ \E i \in 1..Len(TaxRates) : TaxRates[i].name = value
  \/ key = S_cardID /\ \E i \in 1..Len(CardList) : CardList[i].bank = value

\* The values of a right-hand side, a scalar or a list.
ValuesIn(right) ==
  IF right.t = "str" THEN <<right.s>> ELSE IF right.t = "list" THEN right.l ELSE <<>>

\* Every value of node's from, to, tax-rate and card-id nodes that the directory
\* does not know is among the values of the same node of the rewritten AST.
RECURSIVE MissesKept(_, _)
MissesKept(node, rewritten) ==
  \/ node.operator = ""
  \/ /\ node.left.t = "node" => MissesKept(node.left.n, rewritten.left.n)
     /\ node.right.t = "node" => MissesKept(node.right.n, rewritten.right.n)
     /\ node.left.t = "key" /\ node.left.k \in {S_from, S_to, S_taxRate, S_cardID} =>
          \A i \in 1..Len(ValuesIn(node.right)) :
            ~Resolves(node.left.k, ValuesIn(node.right)[i]) =>
              Includes(ValuesIn(rewritten.right), ValuesIn(node.right)[i])

\* Whether the display formatter's directory has an entry for the identifier.
HasEntry(key, id) ==
  \/ key \in {S_from, S_to} /\ \E i \in 1..Len(PersonalDetails) : PersonalDetails[i].accountID = id
  \/ key = S_cardID /\ \E i \in 1..Len(CardList) : CardList[i].cardID = id
  \/ key = S_in /\ \E i \in 1..Len(Reports) : Reports[i].reportID = id
  \/ key = S_taxRate /\ \E i \in 1..Len(TaxRates) : Includes(TaxRates[i].ids, id)

\* Whether str holds sub.
Contains(str, sub) ==
  \E i \in 0..(Len(str) - Len(sub)) : SubSeq(str, i + 1, i + Len(sub)) = sub

\* C6: a directory miss never loses a value.  In standardizeQueryJSON every
\* value of a from, to, tax-rate or card-id node, scalar or element of a list,
\* that the directory does not resolve is in the rewritten right-hand side; in
\* buildUserReadableQueryString every identifier of a from, to, card, in or
\* tax-rate filter without a directory entry is in the string.
C6_DirectoryMissesKept ==
  /\ pc = "standardized" /\ heap[arg].filters.t = "node" =>
       MissesKept(heap[arg].filters.n, heap[ret.ref].filters.n)
  /\ pc = "title" =>
       \A i \in 1..Len(heap[arg].flatFilters) :
         LET entry == heap[arg].flatFilters[i]
         IN  entry.key \in {S_from, S_to, S_cardID, S_in, S_taxRate} =>
               \A j \in 1..Len(entry.filters) :
                 ~HasEntry(entry.key, entry.filters[j].value) =>
                   Contains(ret.s, entry.filters[j].value)

\* The statuses of a data type.
StatusFamily(type) ==
  LET typeKeys == { DATA_TYPES[i].key : i \in { j \in 1..Len(DATA_TYPES) : DATA_TYPES[j].value = type } }
  IN  { status \in UNION { { STATUS[i].value[j] : j \in 1..Len(STATUS[i].value) } : i \in 1..Len(STATUS) } :
          \E i \in 1..Len(STATUS) : STATUS[i].key \in typeKeys /\ Includes(STATUS[i].value, status) }

\* The type the form resolves: that of the query when it is a data type, else
\* expense.
ResolvedType(queryJSON) ==
  IF \E i \in 1..Len(DATA_TYPES) : DATA_TYPES[i].value = queryJSON.type
  THEN queryJSON.type ELSE S_expense

\* C7: the type of the form is the type of the query when that is a data type
\* and expense otherwise; its status is the status of the query whenever that
\* is a status of the resolved type (also one that other types have, also when
\* the type was defaulted to expense), and "all" otherwise.
C7_FormTypeAndStatus ==
  pc = "form" =>
    /\ FormGet(ret.form, S_type) = StrOf(ResolvedType(heap[arg]))
    /\ FormGet(ret.form, S_status) =
         StrOf(IF heap[arg].status \in StatusFamily(ResolvedType(heap[arg]))
               THEN heap[arg].status ELSE S_all)

\* The entries of the sequence of the date key with the operator and a valid
\* date, or of the amount key with the operator and a valid amount.
Qualifying(key, queryFilters, operator) ==
  { i \in 1..Len(queryFilters) :
      /\ queryFilters[i].operator = operator
      /\ \/ key = S_date /\ isValidDate(queryFilters[i].value)
         \/ key = S_amount /\ validateAmount(queryFilters[i].value) }

\* The value of the first such entry, undefined when there is none.
ExpectedBound(key, queryFilters, operator) ==
  LET qualifying == Qualifying(key, queryFilters, operator)
  IN  IF qualifying = {} THEN Undefined
      ELSE StrOf(queryFilters[CHOOSE i \in qualifying : \A j \in qualifying : i <= j].value)

\* C8: dateBefore is the value of the first entry of the date key with operator
\* lt and a valid date, dateAfter that of the first with gt, and so lessThan and
\* greaterThan for the amount key with valid amounts; an entry with an invalid
\* value or another operator fills no field and does not keep a later valid one
\* out, and a field with no such entry is left undefined.
C8_FirstValidBound ==
  pc = "form" =>
    LET flatFilters == heap[arg].flatFilters
    IN  /\ FormGet(ret.form, S_dateBefore)
             = ExpectedBound(S_date, FiltersOf(flatFilters, S_date), "lt")
        /\ FormGet(ret.form, S_dateAfter)
             = ExpectedBound(S_date, FiltersOf(flatFilters, S_date), "gt")
        /\ FormGet(ret.form, S_lessThan)
             = ExpectedBound(S_amount, FiltersOf(flatFilters, S_amount), "lt")
        /\ FormGet(ret.form, S_greaterThan)
             = ExpectedBound(S_amount, FiltersOf(flatFilters, S_amount), "gt")

\* C8's case: the form of a query whose date key has an lt entry with an
\* invalid date before an lt entry with a valid one.
C8_Witness ==
  /\ pc = "form"
  /\ LET dates == FiltersOf(heap[arg].flatFilters, S_date)
     IN  \E i, j \in 1..Len(dates) :
           /\ i < j
           /\ dates[i].operator = "lt" /\ ~isValidDate(dates[i].value)
           /\ dates[j].operator = "lt" /\ isValidDate(dates[j].value)
           /\ FormGet(ret.form, S_dateBefore) = StrOf(dates[j].value)

\* Whether no from, to, tax-rate or card-id value of the AST is a display value
\* of the directory: every such value is a canonical identifier already.
RECURSIVE Canonical(_)
Canonical(node) ==
  \/ node.operator = ""
  \/ /\ node.left.t = "node" => Canonical(node.left.n)
     /\ node.right.t = "node" => Canonical(node.right.n)
     /\ node.left.t = "key" =>
          \A i \in 1..Len(ValuesIn(node.right)) :
            ~Resolves(node.left.k, ValuesIn(node.right)[i])

\* C9: standardizing the standardization of a query whose from, to, tax-rate and
\* card-id values are canonical identifiers already gives what standardizing
\* the query gave, in the AST and in the flattened filters.
C9_StandardizeIdempotent ==
  /\ heap["restandardQuery"].t = "json"
  /\ heap["result"].filters.t = "node" => Canonical(heap["result"].filters.n)
  =>
  /\ heap["restandardQuery"].filters = heap["standardQuery"].filters
  /\ heap["restandardQuery"].flatFilters = heap["standardQuery"].flatFilters

\* C9's case: a query of canonical identifiers standardized twice, whose
\* standardization is not the query itself.
C9_Witness ==
  /\ heap["restandardQuery"].t = "json"
  /\ heap["result"].filters.t = "node"
  /\ Canonical(heap["result"].filters.n)
  /\ \E i \in 1..Len(heap["result"].flatFilters) :
       heap["result"].flatFilters[i].key \in {S_from, S_to, S_taxRate, S_cardID}
  /\ heap["standardQuery"].filters # heap["result"].filters

\* C10: getFilters gives an empty map for an absent root; a node without
\* operator gives nothing and is not descended into; a node with an operator
\* gives the entries of its left subtree, then those of its right subtree (a
\* list is not descended into), then its own: with a recognized filter key on
\* the left, one {operator, value} for a scalar right-hand side or one per
\* element, in order, for a list, and nothing otherwise.
C10_FlattenerPostOrder ==
  /\ parsed.t = "ok" => getFilters(parsed.result) = Flattening(parsed.result.filters)
  /\ \A ref \in {"standardQuery", "restandardQuery"} :
       heap[ref].t = "json" => heap[ref].flatFilters = Flattening(heap[ref].filters)

\* C10's case: the flattened AST of a built query has a node without operator
\* on the left of a connective and a list of two values on its right.
C10_Witness ==
  /\ pc = "built"
  /\ parsed.result.filters.t = "node"
  /\ LET root == parsed.result.filters.n
     IN  /\ root.left.t = "node" /\ root.right.t = "node"
         /\ root.left.n.operator = ""
         /\ root.right.n.right.t = "list"
         /\ Len(root.right.n.right.l) = 2
         /\ Len(getFilters(parsed.result)) = 1

\* ------------------------------------------------------------ the sanitizer alone

\* The strings given to sanitizeSearchValue have at most this many characters.
MaxChars == 2

\* Characters of every kind: a letter, a digit, safe punctuation marks (the
\* backslash and the quotes among them), and characters outside the safe set.
SampleChars == { "a", "0", "_", "\\", "'", "\"", " ", ":" }

\* The strings of the given characters with at most n of them.
RECURSIVE StringsUpTo(_, _)
StringsUpTo(chars, n) ==
  IF n = 0 THEN { <<>> }
  ELSE StringsUpTo(chars, n - 1)
         \cup { Append(str, c) : str \in StringsUpTo(chars, n - 1), c \in chars }

\* Every single character, and the strings of the sample characters.
SanitizeInputs ==
  { <<Alphabet[i]>> : i \in 1..Len(Alphabet) } \cup StringsUpTo(SampleChars, MaxChars)

\* No call has been made; query holds the string the next call is given.
SanitizeInit ==
  /\ query \in SanitizeInputs
  /\ parsed = Undefined
  /\ heap = [ref \in Refs |-> Undefined]
  /\ pc = "start"
  /\ arg = "result"
  /\ ret = Undefined
  /\ hashed = <<>>

\* sanitizeSearchValue(str), after any calls made before.
SanitizeSearchValue(str) ==
  /\ query' = str
  /\ pc' = "sanitized"
  /\ ret' = StrOf(sanitizeSearchValue(str))
  /\ UNCHANGED <<parsed, heap, arg, hashed>>

SanitizeNext == \E str \in SanitizeInputs : SanitizeSearchValue(str)

SanitizeSpec == SanitizeInit /\ [][SanitizeNext]_vars

\* The safe set as the contract lists it: the alphanumerics and _@./#&+-\';,"
ContractSafeChars ==
  { "a", "b", "c", "d", "e", "f", "g", "h", "i", "j", "k", "l", "m",
    "n", "o", "p", "q", "r", "s", "t", "u", "v", "w", "x", "y", "z",
    "A", "B", "C", "D", "E", "F", "G", "H", "I", "J", "K", "L", "M",
    "N", "O", "P", "Q", "R", "S", "T", "U", "V", "W", "X", "Y", "Z",
    "0", "1", "2", "3", "4", "5", "6", "7", "8", "9",
    "_", "@", ".", "/", "#", "&", "+", "-", "\\", "'", ";", ",", "\"" }

\* C11: sanitizeSearchValue returns a string for every string: the argument
\* itself when every character of it is in the safe set, and otherwise the
\* argument between one pair of double quotes with its characters as they were;
\* whatever calls came before, the result is decided by the argument alone.
C11_SanitizeQuotesUnsafe ==
  [][pc' = "sanitized" =>
       /\ ret'.t = "str"
       /\ IF \A i \in 1..Len(query') : query'[i] \in ContractSafeChars
          THEN ret'.s = query'
          ELSE /\ Len(ret'.s) = Len(query') + 2
               /\ ret'.s[1] = "\"" /\ ret'.s[Len(ret'.s)] = "\""
               /\ SubSeq(ret'.s, 2, Len(ret'.s) - 1) = query']_vars

\* C11's case: a string with a safe first character and an unsafe one after it
\* came back in quotes.
C11_Witness ==
  /\ pc = "sanitized"
  /\ Len(query) = 2
  /\ query[1] \in ContractSafeChars /\ query[2] \notin ContractSafeChars
  /\ ret.s = <<"\"">> \o query \o <<"\"">>

\* The elements of a sequence.
Range(seq) == { seq[i] : i \in 1..Len(seq) }

\* The names of a policy directory that a query may use: those of its policy, or
\* of every policy when it has none.
ScopedNames(directory, policyID) ==
  UNION { Range(directory[i].names) :
            i \in { j \in 1..Len(directory) : policyID = <<>> \/ directory[j].policyID = policyID } }

\* The values a list field of the form may hold, by key: the members of the
\* directory or enumeration of the key, with the empty value for categories and
\* tags.
ValidSet(key, policyID) ==
  CASE key = S_cardID -> { CardList[i].cardID : i \in 1..Len(CardList) }
    [] key = S_taxRate -> UNION { Range(TaxRates[i].ids) : i \in 1..Len(TaxRates) }
    [] key = S_in -> { Reports[i].reportID : i \in 1..Len(Reports) }
    [] key \in {S_from, S_to} -> { PersonalDetails[i].accountID : i \in 1..Len(PersonalDetails) }
    [] key = S_currency -> { CurrencyList[i].code : i \in 1..Len(CurrencyList) }
    [] key = S_expenseType -> Range(TRANSACTION_TYPE)
    [] key = S_category -> ScopedNames(PolicyCategories, policyID) \cup {EMPTY_VALUE}
    [] key = S_tag -> ScopedNames(PolicyTags, policyID) \cup {EMPTY_VALUE}

\* The keys whose form fields are lists.
ListKeys ==
  {S_cardID, S_taxRate, S_in, S_from, S_to, S_currency, S_category, S_tag, S_expenseType}

\* C12: every list field of the form (card, tax rate, in, from, to, currency,
\* category, tag, expense type) holds exactly the values of the flattened
\* filters of its key that the directory of the key holds, in their order; a
\* value the directory lacks is never in the form, and the empty value is
\* accepted for categories and tags with or without a policy.
C12_ListFieldsKeepDirectoryValues ==
  pc = "form" =>
    \A key \in ListKeys :
      IF HasKey(heap[arg].flatFilters, key)
      THEN LET entries == FiltersOf(heap[arg].flatFilters, key)
               values == [i \in 1..Len(entries) |-> entries[i].value]
           IN  FormGet(ret.form, key)
                 = ListOf(SelectSeq(values,
                                    LAMBDA value : value \in ValidSet(key, heap[arg].policyID)))
      ELSE ~FormHas(ret.form, key)

\* C12's case: the form of a query under a policy whose category filters hold a
\* name of that policy, a name of another policy, a name of no policy and the
\* empty value; the form keeps the first and the last.
C12_Witness ==
  /\ pc = "form"
  /\ heap[arg].policyID = V_p1
  /\ HasKey(heap[arg].flatFilters, S_category)
  /\ LET entries == FiltersOf(heap[arg].flatFilters, S_category)
     IN  \A value \in {V_Food, V_Taxi, V_zz, EMPTY_VALUE} :
           \E i \in 1..Len(entries) : entries[i].value = value
  /\ Range(FormGet(ret.form, S_category).l) = {V_Food, EMPTY_VALUE}

\* ------------------------------------------------------------ form serializer

\* if (value): a string that is not empty, or an array.
Truthy(value) == (value.t = "str" /\ value.s # <<>>) \/ value.t = "list"

\* buildDateFilterQuery
buildDateFilterQuery(filterValues) ==
  LET dateBefore == FormGet(filterValues, S_dateBefore)
      dateAfter == FormGet(filterValues, S_dateAfter)
  IN  (IF Truthy(dateBefore) THEN S_date \o <<"<">> \o dateBefore.s ELSE <<>>)
        \o (IF Truthy(dateBefore) /\ Truthy(dateAfter) THEN <<" ">> ELSE <<>>)
        \o (IF Truthy(dateAfter) THEN S_date \o <<">">> \o dateAfter.s ELSE <<>>)

\* buildAmountFilterQuery
buildAmountFilterQuery(filterValues) ==
  LET lessThan == FormGet(filterValues, S_lessThan)
      greaterThan == FormGet(filterValues, S_greaterThan)
  IN  (IF Truthy(greaterThan) THEN S_amount \o <<">">> \o greaterThan.s ELSE <<>>)
        \o (IF Truthy(lessThan) /\ Truthy(greaterThan) THEN <<" ">> ELSE <<>>)
        \o (IF Truthy(lessThan) THEN S_amount \o <<"<">> \o lessThan.s ELSE <<>>)

\* String.prototype.split(' ')
RECURSIVE Split(_)
Split(str) ==
  IF \A i \in 1..Len(str) : str[i] # " " THEN <<str>>
  ELSE LET space == CHOOSE i \in 1..Len(str) :
                      str[i] = " " /\ \A j \in 1..(i - 1) : str[j] # " "
       IN  <<SubSeq(str, 1, space - 1)>> \o Split(SubSeq(str, space + 1, Len(str)))

\* [...new Set(filterValue)]: the values once each, in the order they first come.
Unique(filterValue) ==
  LET firsts == { i \in 1..Len(filterValue) : \A j \in 1..(i - 1) : filterValue[j] # filterValue[i] }
      Rank(i) == Cardinality({ j \in firsts : j <= i })
  IN  [n \in 1..Cardinality(firsts) |-> filterValue[CHOOSE i \in firsts : Rank(i) = n]]

\* values.map(sanitizeSearchValue)
MapSanitize(values) == [i \in 1..Len(values) |-> sanitizeSearchValue(values[i])]

\* The callback of the map over Object.entries(otherFilters): the clause of one
\* field, or undefined.
MappedFilter(filterKey, filterValue) ==
  IF /\ filterKey \in {S_merchant, S_description, S_reportID}
     /\ Truthy(filterValue)
     /\ Includes(SYNTAX_FILTER_KEYS, filterKey)
  THEN StrOf(filterKey \o <<":">> \o sanitizeSearchValue(filterValue.s))
  ELSE IF filterKey = S_keyword /\ Truthy(filterValue)
  THEN StrOf(Join(MapSanitize(Split(filterValue.s)), <<" ">>))
  ELSE IF /\ filterKey \in {S_category, S_cardID, S_taxRate, S_expenseType, S_tag,
                            S_currency, S_from, S_to, S_in}
          /\ filterValue.t = "list"
          /\ Len(filterValue.l) > 0
          /\ Includes(SYNTAX_FILTER_KEYS, filterKey)
  THEN StrOf(filterKey \o <<":">> \o Join(MapSanitize(Unique(filterValue.l)), <<",">>))
  ELSE Undefined

\* mappedFilters: the clauses of the fields other than type, status and policyID,
\* in the order of the entries of the object, without the undefined and the
\* empty ones.
MappedFilters(filterValues) ==
  LET otherFilters == SelectSeq(filterValues,
                                LAMBDA entry : entry.key \notin {S_type, S_status, S_policyID})
      mapped == [i \in 1..Len(otherFilters) |->
                   MappedFilter(otherFilters[i].key, otherFilters[i].value)]
      kept == SelectSeq(mapped, LAMBDA filter : Truthy(filter))
  IN  [i \in 1..Len(kept) |-> kept[i].s]

\* String.prototype.trim
RECURSIVE Trim(_)
Trim(str) ==
  IF str = <<>> THEN str
  ELSE IF Head(str) = " " THEN Trim(Tail(str))
  ELSE IF str[Len(str)] = " " THEN Trim(SubSeq(str, 1, Len(str) - 1))
  ELSE str

\* The clause of a root field of the form, when the field is truthy.
RootClause(filterValues, key) ==
  IF Truthy(FormGet(filterValues, key))
  THEN << key \o <<":">> \o sanitizeSearchValue(FormGet(filterValues, key).s) >>
  ELSE <<>>

\* filtersString when it is joined.
FiltersString(filterValues) ==
  << S_sortBy \o <<":">> \o S_date, S_sortOrder \o <<":">> \o S_desc >>
    \o RootClause(filterValues, S_type)
    \o RootClause(filterValues, S_status)
    \o RootClause(filterValues, S_policyID)
    \o MappedFilters(filterValues)
    \o << buildDateFilterQuery(filterValues) >>
    \o << buildAmountFilterQuery(filterValues) >>

\* buildQueryStringFromFilterFormValues
buildQueryStringFromFilterFormValues(filterValues) ==
  Trim(Join(FiltersString(filterValues), <<" ">>))

\* ------------------------------------------------------------ the form serializer alone

V_ba == <<"b", " ", "a">>

\* A field left out of the object, or set to one of the values.
Optional(key, values) == {<<>>} \cup { <<[key |-> key, value |-> value]>> : value \in values }

\* The form-values objects the serializer is given: every choice of the root
\* fields, of a text field, of the keyword, of a list field (empty, or with a
\* value twice) and of the four bounds (one of them also present and undefined).
FormValues ==
  { type \o status \o policyID \o merchant \o keyword \o category
      \o dateBefore \o dateAfter \o lessThan \o greaterThan :
      type \in Optional(S_type, {StrOf(S_expense)}),
      status \in Optional(S_status, {StrOf(S_all)}),
      policyID \in Optional(S_policyID, {StrOf(V_p1)}),
      merchant \in Optional(S_merchant, {StrOf(V_ab)}),
      keyword \in Optional(S_keyword, {StrOf(V_ba)}),
      category \in Optional(S_category, {ListOf(<<>>), ListOf(<<V_Food, S_none, V_Food>>)}),
      dateBefore \in Optional(S_dateBefore, {StrOf(V_date1)}),
      dateAfter \in Optional(S_dateAfter, {StrOf(V_date2)}),
      lessThan \in Optional(S_lessThan, {Undefined, StrOf(V_amount1)}),
      greaterThan \in Optional(S_greaterThan, {StrOf(V_amount2)}) }

FormInit ==
  /\ query = <<>>
  /\ parsed = Undefined
  /\ \E filterValues \in FormValues :
       heap = [ref \in Refs |-> IF ref = "filterValues" THEN FormOf(filterValues) ELSE Undefined]
  /\ pc = "start"
  /\ arg = "filterValues"
  /\ ret = Undefined
  /\ hashed = <<>>

BuildQueryStringFromFilterFormValues(ref) ==
  /\ pc = "start"
  /\ heap[ref].t = "form"
  /\ pc' = "formstring"
  /\ arg' = ref
  /\ ret' = StrOf(buildQueryStringFromFilterFormValues(heap[ref].form))
  /\ UNCHANGED <<query, parsed, heap, hashed>>

FormNext == \E ref \in Refs : BuildQueryStringFromFilterFormValues(ref)

FormSpec == FormInit /\ [][FormNext]_vars

\* The clause of a bound of a range: none when the bound is absent.
BoundClause(filterValues, key, prefix) ==
  IF FormHas(filterValues, key) /\ Truthy(FormGet(filterValues, key))
  THEN << prefix \o FormGet(filterValues, key).s >>
  ELSE <<>>

\* The clauses the result is made of, in their order: the sort clauses, the root
\* clauses that are present, the clauses of the fields, the bounds of the date
\* and the bounds of the amount that are present.
ExpectedClauses(filterValues) ==
  << S_sortBy \o <<":">> \o S_date, S_sortOrder \o <<":">> \o S_desc >>
    \o RootClause(filterValues, S_type)
    \o RootClause(filterValues, S_status)
    \o RootClause(filterValues, S_policyID)
    \o MappedFilters(filterValues)
    \o BoundClause(filterValues, S_dateBefore, S_date \o <<"<">>)
    \o BoundClause(filterValues, S_dateAfter, S_date \o <<">">>)
    \o BoundClause(filterValues, S_greaterThan, S_amount \o <<">">>)
    \o BoundClause(filterValues, S_lessThan, S_amount \o <<"<">>)

\* C13: the string built from a form-values object is its clauses in the order
\* sortBy:date, sortOrder:desc, type, status, policyID, the fields, date<before,
\* date>after, amount>greaterThan, amount<lessThan, with one space between two
\* clauses and none at the ends; an absent bound and a range without bounds add
\* neither a clause nor a separator.
C13_FormStringSingleSpaced ==
  pc = "formstring" =>
    ret.s = Join(ExpectedClauses(heap[arg].form), <<" ">>)

\* The display entries of a tax-rate sequence when every name keeps the operator
\* of the entry whose identifier it stands for.
OwnOperatorEntries(queryFilter, taxRates) ==
  Flat([i \in 1..Len(queryFilter) |->
          LET names == TaxNamesOrID(taxRates, queryFilter[i].value)
          IN  [j \in 1..Len(names) |->
                 [operator |-> queryFilter[i].operator, value |-> names[j]]]])

\* The fragments of the title, the tax-rate one made of OwnOperatorEntries.
RECURSIVE ExpectedTitleFilters(_)
ExpectedTitleFilters(filters) ==
  IF filters = <<>> THEN <<>>
  ELSE LET key == Head(filters).key
           entries ==
             IF key = S_taxRate THEN OwnOperatorEntries(Head(filters).filters, TaxRates)
             ELSE DisplayQueryFilters(key, Head(filters).filters, PersonalDetails,
                                      CardList, Reports, TaxRates)
       IN  buildFilterValuesString(key, entries) \o ExpectedTitleFilters(Tail(filters))

\* C14: the title starts with type:<type> status:<status>, and in the fragment
\* of the tax-rate key every identifier is replaced by the names of the tax
\* rates whose identifiers include it, each name under the operator of the
\* entry it was expanded from.
C14_TitleTaxRateKeepsOperators ==
  pc = "title" =>
    ret.s = S_type \o <<":">> \o heap[arg].type \o <<" ">>
              \o S_status \o <<":">> \o heap[arg].status
              \o ExpectedTitleFilters(heap[arg].flatFilters)

====
